---- MODULE Spec2Model ----
(***************************************************************************)
(* Model of the trailer add-on's GET /stream/:type/:id.json handler, in    *)
(* the three snapshots the repository holds:                               *)
(*   "search"    src/server.js 148-232   (YouTube search)                  *)
(*   "invidious" src/server.js 372-516   (sequential Invidious instances)  *)
(*   "piped"     src/unnamed/part_000 108-227 (parallel Piped instances)   *)
(* An action is one synchronous run of a handler, from the event that      *)
(* resumes it (request arrival, an awaited call settling) to the next      *)
(* await or to the response.  Every request has its own handler            *)
(* invocation with its own locals; a request can arrive while earlier ones *)
(* are still awaiting their calls, and the runs of the handlers then       *)
(* interleave at the awaits.                                               *)
(***************************************************************************)
EXTENDS Integers, Sequences, FiniteSets

(***************************************************************************)
(* Bounds                                                                  *)
(***************************************************************************)
\* requests the server receives in a run; they may all be in flight at once
MaxRequests == 2
\* entries in the "results" list of a metadata-provider videos response
MaxVideos == 2

(***************************************************************************)
(* JavaScript values and string functions                                  *)
(***************************************************************************)
\* strings are sequences of one-character strings
Null == [t |-> "null"]
Str(s) == [t |-> "str", s |-> s]
Num(n) == [t |-> "num", n |-> n]

\* JavaScript truthiness of null, a string or a number
Truthy(v) ==
  CASE v.t = "null" -> FALSE
    [] v.t = "str" -> v.s # << >>
    [] v.t = "num" -> v.n # 0

UpperCase ==
  <<"A", "B", "C", "D", "E", "F", "G", "H", "I", "J", "K", "L", "M",
    "N", "O", "P", "Q", "R", "S", "T", "U", "V", "W", "X", "Y", "Z">>
LowerCase ==
  <<"a", "b", "c", "d", "e", "f", "g", "h", "i", "j", "k", "l", "m",
    "n", "o", "p", "q", "r", "s", "t", "u", "v", "w", "x", "y", "z">>

\* the lower-case form of a character: letters A-Z map to a-z, every other
\* character of the names used here is left as it is
LowerChar(c) ==
  IF \E i \in 1..Len(UpperCase) : UpperCase[i] = c
  THEN LowerCase[CHOOSE i \in 1..Len(UpperCase) : UpperCase[i] = c]
  ELSE c

\* String.prototype.toLowerCase
toLowerCase(s) == [i \in 1..Len(s) |-> LowerChar(s[i])]

\* position of the first occurrence of sub in s, 0 when there is none
indexOf(s, sub) ==
  LET hits == {i \in 1..(Len(s) - Len(sub) + 1) :
                 SubSeq(s, i, i + Len(sub) - 1) = sub}
  IN IF hits = {} THEN 0 ELSE CHOOSE i \in hits : \A j \in hits : i <= j

\* String.prototype.includes
includes(s, sub) == indexOf(s, sub) # 0

\* String.prototype.startsWith
startsWith(s, p) == Len(s) >= Len(p) /\ SubSeq(s, 1, Len(p)) = p

\* String.prototype.replace with a string pattern: first occurrence only
replace(s, pat, rep) ==
  LET i == indexOf(s, pat)
  IN IF i = 0 THEN s
     ELSE SubSeq(s, 1, i - 1) \o rep \o SubSeq(s, i + Len(pat), Len(s))

tt == <<"t", "t">>
tmdbPrefix == <<"t", "m", "d", "b", ":">>
officialWord == <<"o", "f", "f", "i", "c", "i", "a", "l">>
officialTrailerSuffix == <<" ", "official trailer">>

(***************************************************************************)
(* Outcomes of an outbound HTTP call                                       *)
(***************************************************************************)
\* the call rejects: network error, timeout, or a status axios refuses
FailKinds == {"error", "timeout", "non200"}
Failed(k) == [kind |-> k]
Ok(data) == [kind |-> "ok", data |-> data]
Failures == {Failed(k) : k \in FailKinds}
\* a successful response whose body carries none of the expected fields
EmptyPayload == [empty |-> TRUE]
Pending == [kind |-> "pending"]

\* the elements of an array
elements(seq) == {seq[i] : i \in 1..Len(seq)}

\* Array.prototype.find: index of the first element that is among those the
\* callback accepts, 0 for undefined
find(seq, accepted) ==
  LET hits == {i \in 1..Len(seq) : seq[i] \in accepted}
  IN IF hits = {} THEN 0 ELSE CHOOSE i \in hits : \A j \in hits : i <= j

(***************************************************************************)
(* Metadata provider (TMDB) responses and the helpers that read them       *)
(***************************************************************************)
\* GET /find/{imdbId}: movie_results is a list of {id}
FindPayloads ==
  {EmptyPayload,
   [movie_results |-> << >>],
   [movie_results |-> <<[id |-> 42]>>],
   [movie_results |-> <<[id |-> 0]>>]}

\* GET /movie/{tmdbId}: imdb_id and title, either of which may be missing
MoviePayloads ==
  {EmptyPayload,
   [imdb_id |-> <<"t", "t", "9">>, title |-> <<"M">>],
   [imdb_id |-> << >>, title |-> <<"M">>],
   [imdb_id |-> << >>, title |-> << >>]}

Digits == <<"1", "2", "3", "4", "5">>
\* the key of the i-th entry of a videos list: entries carry distinct keys
Key(i) == <<"k", Digits[i]>>

VideoNames ==
  {<<"T", "e", "a", "s", "e", "r">>,
   <<"o", "f", "f", "i", "c", "i", "a", "l">>,
   <<"A", " ", "O", "F", "F", "i", "c", "i", "A", "L">>}

VideoAttrs ==
  [type : {"Trailer", "Teaser"}, site : {"YouTube", "Vimeo"},
   official : BOOLEAN, name : VideoNames]

Video(a, i) ==
  [type |-> a.type, site |-> a.site, official |-> a.official,
   name |-> a.name, key |-> Key(i)]

\* the lists of at most n videos
VideoLists(n) ==
  UNION {{[i \in 1..k |-> Video(f[i], i)] : f \in [1..k -> VideoAttrs]} :
           k \in 0..n}

VideosPayloads(n) == {EmptyPayload} \cup {[results |-> l] : l \in VideoLists(n)}

\* the videos responses the stream handler is run against
HandlerVideoLists ==
  LET officialYT == [type |-> "Trailer", site |-> "YouTube", official |-> TRUE,
                     name |-> <<"T", "e", "a", "s", "e", "r">>]
      plainYT == [officialYT EXCEPT !.official = FALSE]
      teaser == [plainYT EXCEPT !.type = "Teaser"]
  IN {<< >>,
      <<Video(officialYT, 1)>>,
      <<Video(teaser, 1)>>}

\* a field of a response body, undefined (null here) when it is missing
Field(data, f) == IF f \in DOMAIN data THEN Str(data[f]) ELSE Null

\* getImdbIdFromTmdb, from the outcome r of its axios.get
getImdbIdFromTmdb(r) ==
  IF r.kind # "ok" THEN Null
  ELSE IF Truthy(Field(r.data, "imdb_id")) THEN Field(r.data, "imdb_id")
  ELSE Null

\* getTitleFromTmdb, from the outcome r of its axios.get
getTitleFromTmdb(r) ==
  IF r.kind # "ok" THEN Null
  ELSE IF Truthy(Field(r.data, "title")) THEN Field(r.data, "title")
  ELSE Null

\* getTmdbIdFromImdb, from the outcome r of its axios.get; reading [0] of a
\* missing movie_results throws, which the helper catches
getTmdbIdFromImdb(r) ==
  IF r.kind # "ok" THEN Null
  ELSE IF "movie_results" \notin DOMAIN r.data THEN Null
  ELSE IF r.data.movie_results = << >> THEN Null
  ELSE IF Truthy(Num(r.data.movie_results[1].id))
       THEN Num(r.data.movie_results[1].id)
  ELSE Null

isTrailerOnYouTube(video) == video.type = "Trailer" /\ video.site = "YouTube"

isOfficialTrailer(video) ==
  /\ video.type = "Trailer"
  /\ video.site = "YouTube"
  /\ (video.official \/ includes(toLowerCase(video.name), officialWord))

\* getTrailerFromTmdb taking the first trailer, official or not
getTrailerFromTmdb_firstTrailer(r) ==
  IF r.kind # "ok" THEN Null
  ELSE IF "results" \notin DOMAIN r.data THEN Null
  ELSE LET results == r.data.results
           anyTrailer ==
             find(results,
                  {video \in elements(results) : isTrailerOnYouTube(video)})
       IN IF anyTrailer # 0 THEN Str(results[anyTrailer].key) ELSE Null

\* getTrailerFromTmdb, from the outcome r of its axios.get; calling find on a
\* missing results list throws, which the helper catches
getTrailerFromTmdb(r) ==
  IF r.kind # "ok" THEN Null
  ELSE IF "results" \notin DOMAIN r.data THEN Null
  ELSE LET results == r.data.results
           trailer ==
             find(results,
                  {video \in elements(results) : isOfficialTrailer(video)})
           anyTrailer ==
             find(results,
                  {video \in elements(results) : isTrailerOnYouTube(video)})
       IN IF trailer = 0
          THEN IF anyTrailer # 0 THEN Str(results[anyTrailer].key) ELSE Null
          ELSE Str(results[trailer].key)

(***************************************************************************)
(* Video search (YouTube Data API) responses                               *)
(***************************************************************************)
SearchPayloads ==
  {EmptyPayload,
   [items |-> << >>],
   [items |-> <<[id |-> [videoId |-> <<"y", "1">>]]>>]}

(***************************************************************************)
(* Stream backends                                                         *)
(***************************************************************************)
\* the instances array of the invidious snapshot
instances ==
  <<[url |-> "https://invidious.snopyta.org", type |-> "invidious"],
    [url |-> "https://inv.vern.cc", type |-> "invidious"],
    [url |-> "https://invidious.flokinet.to", type |-> "invidious"],
    [url |-> "https://invidious.privacydev.net", type |-> "invidious"]>>

\* the Piped API hosts of the piped snapshot, in the order of its arrays
pipedHosts ==
  <<"pipedapi.kavin.rocks", "api.piped.projectsegfau.lt",
    "watchapi.whatever.social">>

\* a media URL offered by backend b as the n-th entry of its format list
MediaUrl(scheme, b, n) == [scheme |-> scheme, backend |-> b, n |-> n]
\* a missing or empty url
NoUrl == [scheme |-> ""]
\* `${host}/streams/${videoId}`
PipedUrl(i, videoId) ==
  [scheme |-> "https", host |-> pipedHosts[i], path |-> "/streams/",
   videoId |-> videoId]

UrlTruthy(u) == u.scheme # ""

Format(q, scheme, b, n) ==
  [quality |-> q,
   url |-> IF scheme = "" THEN NoUrl ELSE MediaUrl(scheme, b, n)]

\* the outcomes of the axios.get to Invidious instance b the loop is run
\* against: a rejection, a body without formatStreams, or a body with a
\* formatStreams list.  Each instance has its own few; together they hold
\* every kind of rejection, lists with no wanted quality (empty, 144p,
\* 1080p), a wanted quality with or without a url, http urls, and lists with
\* two wanted entries.
InvidiousOutcomes(b) ==
  CASE b = 1 ->
         {Failed("timeout"),
          Ok(EmptyPayload),
          Ok([formatStreams |-> <<Format("720p", "https", b, 1)>>]),
          Ok([formatStreams |-> <<Format("360p", "https", b, 1),
                                  Format("720p", "https", b, 2)>>]),
          Ok([formatStreams |-> <<Format("480p", "", b, 1),
                                  Format("720p", "https", b, 2)>>])}
    [] b = 2 ->
         {Failed("error"),
          Ok([formatStreams |-> << >>]),
          Ok([formatStreams |-> <<Format("720p", "https", b, 1)>>]),
          Ok([formatStreams |-> <<Format("480p", "https", b, 1)>>]),
          Ok([formatStreams |-> <<Format("144p", "https", b, 1),
                                  Format("480p", "https", b, 2)>>])}
    [] b = 3 ->
         {Failed("non200"),
          Ok([formatStreams |-> <<Format("720p", "http", b, 1)>>]),
          Ok([formatStreams |-> <<Format("480p", "http", b, 1)>>]),
          Ok([formatStreams |-> <<Format("360p", "https", b, 1)>>]),
          Ok([formatStreams |-> <<Format("480p", "", b, 1)>>])}
    [] OTHER ->
         {Failed("timeout"),
          Ok(EmptyPayload),
          Ok([formatStreams |-> <<Format("720p", "https", b, 1)>>]),
          Ok([formatStreams |-> <<Format("480p", "https", b, 1)>>]),
          Ok([formatStreams |-> <<Format("1080p", "https", b, 1)>>])}

\* the outcomes of the axios.get to Piped host b the handler is run against:
\* a rejection, a body without videoStreams, or a body with a videoStreams
\* list
PipedOutcomes(b) ==
  CASE b = 1 ->
         {Failed("error"),
          Ok([videoStreams |-> <<Format("720p", "https", b, 1)>>]),
          Ok([videoStreams |-> <<Format("480p", "https", b, 1)>>]),
          Ok([videoStreams |-> <<Format("720p", "", b, 1),
                                 Format("1080p", "https", b, 2)>>])}
    [] b = 2 ->
         {Failed("non200"),
          Ok([videoStreams |-> <<Format("1080p", "https", b, 1)>>]),
          Ok([videoStreams |-> <<Format("480p", "https", b, 1)>>]),
          Ok([videoStreams |-> <<Format("720p", "http", b, 1)>>])}
    [] OTHER ->
         {Failed("timeout"),
          Ok(EmptyPayload),
          Ok([videoStreams |-> <<Format("144p", "https", b, 1),
                                 Format("720p", "https", b, 2)>>])}

(***************************************************************************)
(* State                                                                   *)
(***************************************************************************)
VARIABLES
  variant,          \* which snapshot of the server is running
  YOUTUBE_API_KEY,  \* process.env.YOUTUBE_API_KEY is set
  TMDB_API_KEY,     \* process.env.TMDB_API_KEY is set
  served,           \* requests received so far
  pc,               \* pc[h]: where the handler of request h stands
  req,              \* req[h]: req.params of request h
  tmdbId, imdbId, searchQuery, videoId,  \* the locals of each handler
  calls,            \* calls[h]: outbound calls of request h, in issue order
  streams,          \* streams[h]: the streams array of handler h
  res,              \* res[h]: the response to request h, status 0 if none
  microtasks,       \* the handlers whose await was given a settled promise,
                    \* in the order their continuations were queued
  draining          \* the microtask queue is being run

vars ==
  <<variant, YOUTUBE_API_KEY, TMDB_API_KEY, served, pc, req, tmdbId, imdbId,
    searchQuery, videoId, calls, streams, res, microtasks, draining>>

\* the invocations of the async handler: request h is handled by invocation h
Handlers == 1..MaxRequests

Variants == {"search", "invidious", "piped"}
Types == {"movie", "series", "tv"}
Ids ==
  {<<"t", "t", "1">>,
   <<"t", "m", "d", "b", ":", "4", "2">>,
   <<"t", "m", "d", "b", ":">>,
   <<"x", "y">>}

NoRequest == [type |-> "", id |-> << >>]
NoResponse == [status |-> 0]
\* an early return that answers as the meta endpoint does, without streams
emptyStreams_notFound == [error |-> "Trailer not found"]

\* the body of `res.json({ streams: [] })`
emptyStreams == [streams |-> << >>]

\* a call being issued: appended to the log, not yet settled
Issue(c, api, n) == Append(c, [api |-> api, n |-> n, result |-> Pending])
\* the k-th call of the log settling with outcome r
Settle(c, k, r) == [c EXCEPT ![k].result = r]

\* res.status(status).json(body) in handler h; res.json(body) is status 200
Respond(h, status, body) ==
  /\ res' = [res EXCEPT ![h] = [status |-> status, body |-> body]]
  /\ pc' = [pc EXCEPT ![h] = "done"]

Init ==
  /\ variant \in Variants
  /\ TMDB_API_KEY \in BOOLEAN
  /\ YOUTUBE_API_KEY \in (IF variant = "search" THEN BOOLEAN ELSE {FALSE})
  /\ served = 0
  /\ pc = [h \in Handlers |-> "idle"]
  /\ req = [h \in Handlers |-> NoRequest]
  /\ tmdbId = [h \in Handlers |-> Null]
  /\ imdbId = [h \in Handlers |-> Null]
  /\ searchQuery = [h \in Handlers |-> Null]
  /\ videoId = [h \in Handlers |-> Null]
  /\ calls = [h \in Handlers |-> << >>]
  /\ streams = [h \in Handlers |-> << >>]
  /\ res = [h \in Handlers |-> NoResponse]
  /\ microtasks = << >>
  /\ draining = FALSE

\* the route takes a request whenever one arrives, whatever the handlers of
\* earlier requests are doing: the requests read from one chunk enter one
\* after another, each running to its first await, before any continuation
\* runs; once the microtask queue is being run it is emptied before the next
\* request is taken; a run has MaxRequests requests
CanReceive == served < MaxRequests /\ ~draining

\* the callback of a settled outbound call runs once no continuation is queued
CanSettle == microtasks = << >>

\* the continuation of handler h is the first job of the microtask queue
Resumes(h) == microtasks # << >> /\ Head(microtasks) = h

\* the queue after the job at its head has run and left q queued
Drain(q) ==
  /\ microtasks' = q
  /\ draining' = (q # << >>)

(***************************************************************************)
(* Invidious and Piped snapshots: identifier resolution, trailer lookup    *)
(***************************************************************************)
\* LocateTrailer without the `if (!tmdbId)` early return
LocateTrailer_noIdCheck(h, tid, c, q) ==
  /\ tmdbId' = [tmdbId EXCEPT ![h] = tid]
  /\ IF TMDB_API_KEY
     THEN /\ calls' = [calls EXCEPT ![h] = Issue(c, "tmdb.videos", 0)]
          /\ pc' = [pc EXCEPT ![h] = "awaitVideos"]
          /\ microtasks' = q
          /\ UNCHANGED res
     ELSE /\ calls' = [calls EXCEPT ![h] = c]
          /\ pc' = [pc EXCEPT ![h] = "awaitVideos"]
          /\ microtasks' = Append(q, h)
          /\ UNCHANGED res

\* handler h from `if (!tmdbId)` to `await getTrailerFromTmdb(tmdbId)`, q
\* being the continuations queued beside its own: with a key the function
\* issues its call; without one it returns null and no call is made, and the
\* await queues the continuation of the handler
LocateTrailer(h, tid, c, q) ==
  /\ tmdbId' = [tmdbId EXCEPT ![h] = tid]
  /\ IF ~Truthy(tid)
     THEN /\ calls' = [calls EXCEPT ![h] = c]
          /\ Respond(h, 200, emptyStreams)
          /\ microtasks' = q
     ELSE IF TMDB_API_KEY
     THEN /\ calls' = [calls EXCEPT ![h] = Issue(c, "tmdb.videos", 0)]
          /\ pc' = [pc EXCEPT ![h] = "awaitVideos"]
          /\ microtasks' = q
          /\ UNCHANGED res
     ELSE /\ calls' = [calls EXCEPT ![h] = c]
          /\ pc' = [pc EXCEPT ![h] = "awaitVideos"]
          /\ microtasks' = Append(q, h)
          /\ UNCHANGED res

\* a new invocation of the handler, from its entry to its first await or
\* early return; without a key getTmdbIdFromImdb returns null and no call is
\* made, and the await queues the continuation of the handler
ResolveTmdbId(supported, error) ==
  /\ CanReceive
  /\ LET h == served + 1
     IN \E type \in Types, id \in Ids :
          /\ req' = [req EXCEPT ![h] = [type |-> type, id |-> id]]
          /\ served' = h
          /\ IF type \notin supported
             THEN /\ Respond(h, 400, [error |-> error])
                  /\ UNCHANGED <<tmdbId, calls, microtasks>>
             ELSE IF startsWith(id, tt)
             THEN /\ pc' = [pc EXCEPT ![h] = "awaitFind"]
                  /\ UNCHANGED <<tmdbId, res>>
                  /\ IF TMDB_API_KEY
                     THEN /\ calls' =
                               [calls EXCEPT
                                  ![h] = Issue(<< >>, "tmdb.find", 0)]
                          /\ UNCHANGED microtasks
                     ELSE /\ microtasks' = Append(microtasks, h)
                          /\ UNCHANGED calls
             ELSE IF startsWith(id, tmdbPrefix)
             THEN LocateTrailer(h, Str(replace(id, tmdbPrefix, << >>)), << >>,
                                microtasks)
             ELSE LocateTrailer(h, Null, << >>, microtasks)
  /\ UNCHANGED <<variant, YOUTUBE_API_KEY, TMDB_API_KEY, imdbId, searchQuery,
                 videoId, streams, draining>>

\* the invidious type check letting series through
invidiousTypes_withSeries == {"movie", "series"}

\* the types that pass `if (type !== 'movie')`
invidiousTypes == {"movie"}

\* the types that pass `if (type !== 'movie' && type !== 'series')`
pipedTypes == {"movie", "series"}

StreamInvidious_Receive ==
  /\ variant = "invidious"
  /\ ResolveTmdbId(invidiousTypes, "Only movie trailers are supported")

StreamPiped_Receive ==
  /\ variant = "piped"
  /\ ResolveTmdbId(pipedTypes, "Invalid request")

\* the find call of getTmdbIdFromImdb settles in handler h
Stream_FindSettles(h) ==
  /\ pc[h] = "awaitFind"
  /\ CanSettle
  /\ \E r \in Failures \cup {Ok(p) : p \in FindPayloads} :
       LocateTrailer(h, getTmdbIdFromImdb(r),
                     Settle(calls[h], Len(calls[h]), r), microtasks)
  /\ UNCHANGED <<variant, YOUTUBE_API_KEY, TMDB_API_KEY, served, req, imdbId,
                 searchQuery, videoId, streams, draining>>

\* handler h resumes from `await getTmdbIdFromImdb(id)` with the null the
\* function returned without a call
Stream_FindReturnedNull(h) ==
  /\ variant \in {"invidious", "piped"}
  /\ pc[h] = "awaitFind"
  /\ Resumes(h)
  /\ LocateTrailer(h, Null, calls[h], Tail(microtasks))
  /\ draining' = (microtasks' # << >>)
  /\ UNCHANGED <<variant, YOUTUBE_API_KEY, TMDB_API_KEY, served, req, imdbId,
                 searchQuery, videoId, streams>>

\* handler h resumes from `await getTrailerFromTmdb(tmdbId)` with the null
\* the function returned without a call: `if (!videoId)` answers
Stream_TrailerReturnedNull(h) ==
  /\ variant \in {"invidious", "piped"}
  /\ pc[h] = "awaitVideos"
  /\ Resumes(h)
  /\ videoId' = [videoId EXCEPT ![h] = Null]
  /\ Respond(h, 200, emptyStreams)
  /\ Drain(Tail(microtasks))
  /\ UNCHANGED <<variant, YOUTUBE_API_KEY, TMDB_API_KEY, served, req, tmdbId,
                 imdbId, searchQuery, calls, streams>>

(***************************************************************************)
(* Invidious snapshot: the instances are tried one after another           *)
(***************************************************************************)
trailerHints == [notWebReady |-> TRUE, bingeGroup |-> "trailer"]

\* the quality test of the formatStreams.find callback
isHdOrSd(f) == f.quality = "720p" \/ f.quality = "480p" \/ f.quality = "360p"

noFormat == [quality |-> "", url |-> NoUrl]

\* invidiousFormat pushing the format found without looking at its url
invidiousFormat_noUrlCheck(r) ==
  IF r.kind # "ok" THEN noFormat
  ELSE IF "formatStreams" \notin DOMAIN r.data THEN noFormat
  ELSE LET formatStreams == r.data.formatStreams
           j ==
             find(formatStreams,
                  {f \in elements(formatStreams) : isHdOrSd(f)})
       IN IF j # 0 THEN formatStreams[j] ELSE noFormat

\* invidiousFormat looking for the 720p format only
invidiousFormat_hdOnly(r) ==
  IF r.kind # "ok" THEN noFormat
  ELSE IF "formatStreams" \notin DOMAIN r.data THEN noFormat
  ELSE LET formatStreams == r.data.formatStreams
           j ==
             find(formatStreams,
                  {f \in elements(formatStreams) : f.quality = "720p"})
       IN IF j # 0 /\ UrlTruthy(formatStreams[j].url)
          THEN formatStreams[j]
          ELSE noFormat

\* invidiousFormat taking the last format of a wanted quality, not the first
invidiousFormat_lastMatch(r) ==
  IF r.kind # "ok" THEN noFormat
  ELSE IF "formatStreams" \notin DOMAIN r.data THEN noFormat
  ELSE LET formatStreams == r.data.formatStreams
           wanted == {m \in 1..Len(formatStreams) : isHdOrSd(formatStreams[m])}
           j == IF wanted = {} THEN 0
                ELSE CHOOSE m \in wanted : \A n \in wanted : n <= m
       IN IF j # 0 /\ UrlTruthy(formatStreams[j].url)
          THEN formatStreams[j]
          ELSE noFormat

\* the format the loop body pushes for outcome r of its axios.get, noFormat
\* when it pushes none (the call threw, formatStreams is missing, find found
\* nothing, or the format found has no url)
invidiousFormat(r) ==
  IF r.kind # "ok" THEN noFormat
  ELSE IF "formatStreams" \notin DOMAIN r.data THEN noFormat
  ELSE LET formatStreams == r.data.formatStreams
           j ==
             find(formatStreams,
                  {f \in elements(formatStreams) : isHdOrSd(f)})
       IN IF j # 0 /\ UrlTruthy(formatStreams[j].url)
          THEN formatStreams[j]
          ELSE noFormat

\* the loop never stopping early
foundHd_never(format) == FALSE

\* `if (format.quality === '720p') break`, for the format just pushed
foundHd(format) == format.quality = "720p"

\* the descriptor named without the quality of its format
invidiousStream_plainName(format) ==
  [name |-> <<"Trailer">>,
   title |-> "Official Trailer",
   url |-> format.url,
   type |-> "trailer",
   source |-> "youtube",
   behaviorHints |-> trailerHints]

\* the descriptor pushed for a format
invidiousStream(format) ==
  [name |-> <<"Trailer (", format.quality, ")">>,
   title |-> "Official Trailer",
   url |-> format.url,
   type |-> "trailer",
   source |-> "youtube",
   behaviorHints |-> trailerHints]

\* the videos call settles in handler h; with a video id the loop starts and
\* its first axios.get is issued
StreamInvidious_VideosSettles(h) ==
  /\ variant = "invidious"
  /\ pc[h] = "awaitVideos"
  /\ CanSettle
  /\ \E r \in Failures \cup {Ok(EmptyPayload)}
                \cup {Ok([results |-> l]) : l \in HandlerVideoLists} :
       LET c == Settle(calls[h], Len(calls[h]), r)
           v == getTrailerFromTmdb(r)
       IN /\ videoId' = [videoId EXCEPT ![h] = v]
          /\ IF ~Truthy(v)
             THEN /\ calls' = [calls EXCEPT ![h] = c]
                  /\ Respond(h, 200, emptyStreams)
             ELSE /\ calls' = [calls EXCEPT ![h] = Issue(c, "backend", 1)]
                  /\ pc' = [pc EXCEPT ![h] = "awaitInstance"]
                  /\ UNCHANGED res
  /\ UNCHANGED <<variant, YOUTUBE_API_KEY, TMDB_API_KEY, served, req, tmdbId,
                 imdbId, searchQuery, streams, microtasks, draining>>

\* the axios.get of the current instance settles in handler h: the rest of
\* the loop body runs, then either the next instance is requested or the
\* response is sent
StreamInvidious_InstanceSettles(h) ==
  /\ variant = "invidious"
  /\ pc[h] = "awaitInstance"
  /\ CanSettle
  /\ LET k == Len(calls[h])
         i == calls[h][k].n
     IN \E r \in InvidiousOutcomes(i) :
          LET c == Settle(calls[h], k, r)
              format == invidiousFormat(r)
              pushed == IF format # noFormat
                        THEN Append(streams[h], invidiousStream(format))
                        ELSE streams[h]
              break == format # noFormat /\ foundHd(format)
          IN /\ streams' = [streams EXCEPT ![h] = pushed]
             /\ IF break \/ i = Len(instances)
                THEN /\ calls' = [calls EXCEPT ![h] = c]
                     /\ Respond(h, 200, [streams |-> pushed])
                ELSE /\ calls' =
                          [calls EXCEPT ![h] = Issue(c, "backend", i + 1)]
                     /\ UNCHANGED <<pc, res>>
  /\ UNCHANGED <<variant, YOUTUBE_API_KEY, TMDB_API_KEY, served, req, tmdbId,
                 imdbId, searchQuery, videoId, microtasks, draining>>

(***************************************************************************)
(* Piped snapshot: the three hosts are requested together                  *)
(***************************************************************************)
pipedHints ==
  [notWebReady |-> TRUE, bingeGroup |-> "trailer", ios_supports |-> TRUE]

pipedNames == <<"Trailer (HD)", "Trailer (Alternative)", "Trailer (Backup)">>
pipedTitles == <<"Trailer HD", "Trailer", "Trailer">>

\* the streams array as first built, one entry per host
pipedStreams(v) ==
  [i \in 1..Len(pipedHosts) |->
     [name |-> <<pipedNames[i]>>,
      title |-> pipedTitles[i],
      url |-> PipedUrl(i, v),
      type |-> "trailer",
      source |-> "youtube",
      behaviorHints |-> pipedHints]]

\* the filter of validResponses
isValidResponse(r) == r.kind = "ok" /\ "videoStreams" \in DOMAIN r.data

\* the quality test of the videoStreams.find callback
isHd(s) == s.quality = "720p" \/ s.quality = "1080p"

\* responses.filter(...).map(r => r.value.data)
validResponses(responses) ==
  LET kept == SelectSeq(responses, isValidResponse)
  IN [j \in 1..Len(kept) |-> kept[j].data]

\* pipedUpdate writing the url of the hd stream without looking at it
pipedUpdate_noUrlCheck(strs, valid) ==
  [j \in 1..Len(strs) |->
     IF j <= Len(valid)
     THEN LET videoStreams == valid[j].videoStreams
              hd ==
                find(videoStreams,
                     {f \in elements(videoStreams) : isHd(f)})
          IN IF hd # 0
             THEN [strs[j] EXCEPT !.url = videoStreams[hd].url]
             ELSE strs[j]
     ELSE strs[j]]

\* the forEach over validResponses: entry index of streams gets the url of
\* the hd stream of the index-th valid response
pipedUpdate(strs, valid) ==
  [j \in 1..Len(strs) |->
     IF j <= Len(valid)
     THEN LET videoStreams == valid[j].videoStreams
              hd ==
                find(videoStreams,
                     {f \in elements(videoStreams) : isHd(f)})
          IN IF hd # 0 /\ UrlTruthy(videoStreams[hd].url)
             THEN [strs[j] EXCEPT !.url = videoStreams[hd].url]
             ELSE strs[j]
     ELSE strs[j]]

\* the position in the log of the call to Piped host i
pipedCall(c, i) == Len(c) - Len(pipedHosts) + i

\* Promise.race in place of Promise.allSettled: resolves with the first
allSettled_race(c) ==
  \E i \in 1..Len(pipedHosts) : c[pipedCall(c, i)].result # Pending

\* Promise.allSettled resolves once none of its promises is pending
allSettled(c) ==
  \A i \in 1..Len(pipedHosts) : c[pipedCall(c, i)].result # Pending

\* the videos call settles in handler h; with a video id the streams array
\* is built and the three axios.get calls are issued at once
StreamPiped_VideosSettles(h) ==
  /\ variant = "piped"
  /\ pc[h] = "awaitVideos"
  /\ CanSettle
  /\ \E r \in Failures \cup {Ok(EmptyPayload)}
                \cup {Ok([results |-> l]) : l \in HandlerVideoLists} :
       LET c == Settle(calls[h], Len(calls[h]), r)
           v == getTrailerFromTmdb(r)
       IN /\ videoId' = [videoId EXCEPT ![h] = v]
          /\ IF ~Truthy(v)
             THEN /\ calls' = [calls EXCEPT ![h] = c]
                  /\ Respond(h, 200, emptyStreams)
                  /\ UNCHANGED streams
             ELSE /\ calls' =
                       [calls EXCEPT ![h] =
                          Issue(Issue(Issue(c, "backend", 1),
                                      "backend", 2), "backend", 3)]
                  /\ streams' = [streams EXCEPT ![h] = pipedStreams(v)]
                  /\ pc' = [pc EXCEPT ![h] = "awaitAll"]
                  /\ UNCHANGED res
  /\ UNCHANGED <<variant, YOUTUBE_API_KEY, TMDB_API_KEY, served, req, tmdbId,
                 imdbId, searchQuery, microtasks, draining>>

\* one of the three axios.get calls of handler h settles
StreamPiped_BackendSettles(h) ==
  /\ variant = "piped"
  /\ pc[h] = "awaitAll"
  /\ CanSettle
  /\ \E i \in 1..Len(pipedHosts) :
       /\ calls[h][pipedCall(calls[h], i)].result = Pending
       /\ \E r \in PipedOutcomes(i) :
            calls' =
              [calls EXCEPT ![h] = Settle(calls[h], pipedCall(calls[h], i), r)]
  /\ UNCHANGED <<variant, YOUTUBE_API_KEY, TMDB_API_KEY, served, pc, req,
                 tmdbId, imdbId, searchQuery, videoId, streams, res,
                 microtasks, draining>>

\* the Promise.allSettled of handler h resolves: the urls are updated and
\* the response sent
StreamPiped_AllSettled(h) ==
  /\ variant = "piped"
  /\ pc[h] = "awaitAll"
  /\ CanSettle
  /\ allSettled(calls[h])
  /\ LET responses == [i \in 1..Len(pipedHosts) |->
                         calls[h][pipedCall(calls[h], i)].result]
         updated == pipedUpdate(streams[h], validResponses(responses))
     IN /\ streams' = [streams EXCEPT ![h] = updated]
        /\ Respond(h, 200, [streams |-> updated])
  /\ UNCHANGED <<variant, YOUTUBE_API_KEY, TMDB_API_KEY, served, req, tmdbId,
                 imdbId, searchQuery, videoId, calls, microtasks, draining>>

(***************************************************************************)
(* Search snapshot: the trailer is found by a YouTube search               *)
(***************************************************************************)
internalError == [error |-> "Internal server error", details |-> "message"]

\* handler h sets `${x} official trailer` and issues the search call
SearchFor(h, x, c) ==
  /\ searchQuery' = [searchQuery EXCEPT ![h] = Str(x \o officialTrailerSuffix)]
  /\ calls' = [calls EXCEPT ![h] = Issue(c, "youtube.search", 0)]
  /\ pc' = [pc EXCEPT ![h] = "awaitSearch"]
  /\ UNCHANGED res

\* a new invocation of the handler, from its entry to its first await or
\* early return; without a key getImdbIdFromTmdb returns null and no call is
\* made, and the await queues the continuation of the handler
StreamSearch_Receive ==
  /\ variant = "search"
  /\ CanReceive
  /\ LET h == served + 1
     IN \E type \in Types, id \in Ids :
          /\ req' = [req EXCEPT ![h] = [type |-> type, id |-> id]]
          /\ served' = h
          /\ IF ~YOUTUBE_API_KEY
             THEN /\ Respond(h, 500,
                             [error |-> "YouTube API key is not configured"])
                  /\ UNCHANGED <<calls, tmdbId, imdbId, searchQuery,
                                 microtasks>>
             ELSE IF type # "movie" /\ type # "series"
             THEN /\ Respond(h, 400, [error |-> "Invalid request"])
                  /\ UNCHANGED <<calls, tmdbId, imdbId, searchQuery,
                                 microtasks>>
             ELSE IF startsWith(id, tt)
             THEN /\ imdbId' = [imdbId EXCEPT ![h] = Str(id)]
                  /\ SearchFor(h, id, << >>)
                  /\ UNCHANGED <<tmdbId, microtasks>>
             ELSE IF startsWith(id, tmdbPrefix)
             THEN /\ tmdbId' =
                       [tmdbId EXCEPT
                          ![h] = Str(replace(id, tmdbPrefix, << >>))]
                  /\ UNCHANGED <<imdbId, searchQuery>>
                  /\ pc' = [pc EXCEPT ![h] = "awaitImdb"]
                  /\ UNCHANGED res
                  /\ IF TMDB_API_KEY
                     THEN /\ calls' =
                               [calls EXCEPT
                                  ![h] = Issue(<< >>, "tmdb.movie", 0)]
                          /\ UNCHANGED microtasks
                     ELSE /\ microtasks' = Append(microtasks, h)
                          /\ UNCHANGED calls
             ELSE /\ SearchFor(h, id, << >>)
                  /\ UNCHANGED <<tmdbId, imdbId, microtasks>>
  /\ UNCHANGED <<variant, YOUTUBE_API_KEY, TMDB_API_KEY, videoId, streams,
                 draining>>

\* the movie call of getImdbIdFromTmdb settles in handler h
StreamSearch_ImdbSettles(h) ==
  /\ variant = "search"
  /\ pc[h] = "awaitImdb"
  /\ CanSettle
  /\ \E r \in Failures \cup {Ok(p) : p \in MoviePayloads} :
       LET c == Settle(calls[h], Len(calls[h]), r)
           v == getImdbIdFromTmdb(r)
       IN /\ imdbId' = [imdbId EXCEPT ![h] = v]
          /\ IF Truthy(v)
             THEN SearchFor(h, v.s, c)
             ELSE /\ calls' = [calls EXCEPT ![h] = Issue(c, "tmdb.movie", 0)]
                  /\ pc' = [pc EXCEPT ![h] = "awaitTitle"]
                  /\ UNCHANGED <<searchQuery, res>>
  /\ UNCHANGED <<variant, YOUTUBE_API_KEY, TMDB_API_KEY, served, req, tmdbId,
                 videoId, streams, microtasks, draining>>

\* the movie call of getTitleFromTmdb settles in handler h
StreamSearch_TitleSettles(h) ==
  /\ variant = "search"
  /\ pc[h] = "awaitTitle"
  /\ CanSettle
  /\ \E r \in Failures \cup {Ok(p) : p \in MoviePayloads} :
       LET c == Settle(calls[h], Len(calls[h]), r)
           title == getTitleFromTmdb(r)
       IN IF Truthy(title)
          THEN SearchFor(h, title.s, c)
          ELSE /\ calls' = [calls EXCEPT ![h] = c]
               /\ Respond(h, 200, emptyStreams)
               /\ UNCHANGED searchQuery
  /\ UNCHANGED <<variant, YOUTUBE_API_KEY, TMDB_API_KEY, served, req, tmdbId,
                 imdbId, videoId, streams, microtasks, draining>>

\* handler h resumes from `await getImdbIdFromTmdb(tmdbId)` with the null
\* the function returned without a call, and awaits getTitleFromTmdb, which
\* returns null without a call as well
StreamSearch_ImdbReturnedNull(h) ==
  /\ variant = "search"
  /\ pc[h] = "awaitImdb"
  /\ Resumes(h)
  /\ imdbId' = [imdbId EXCEPT ![h] = Null]
  /\ pc' = [pc EXCEPT ![h] = "awaitTitle"]
  /\ Drain(Append(Tail(microtasks), h))
  /\ UNCHANGED <<variant, YOUTUBE_API_KEY, TMDB_API_KEY, served, req, tmdbId,
                 searchQuery, videoId, calls, streams, res>>

\* handler h resumes from `await getTitleFromTmdb(tmdbId)` with the null the
\* function returned without a call: `if (!searchQuery)` answers
StreamSearch_TitleReturnedNull(h) ==
  /\ variant = "search"
  /\ pc[h] = "awaitTitle"
  /\ Resumes(h)
  /\ Respond(h, 200, emptyStreams)
  /\ Drain(Tail(microtasks))
  /\ UNCHANGED <<variant, YOUTUBE_API_KEY, TMDB_API_KEY, served, req, tmdbId,
                 imdbId, searchQuery, videoId, calls, streams>>

\* the youtube.search.list of handler h settles; a rejected call, or items
\* missing from the body, throws into the handler's catch
StreamSearch_SearchSettles(h) ==
  /\ variant = "search"
  /\ pc[h] = "awaitSearch"
  /\ CanSettle
  /\ \E r \in Failures \cup {Ok(p) : p \in SearchPayloads} :
       /\ calls' = [calls EXCEPT ![h] = Settle(calls[h], Len(calls[h]), r)]
       /\ IF r.kind # "ok" \/ "items" \notin DOMAIN r.data
          THEN /\ Respond(h, 500, internalError)
               /\ UNCHANGED <<videoId, streams>>
          ELSE IF r.data.items = << >>
          THEN /\ Respond(h, 200, emptyStreams)
               /\ UNCHANGED <<videoId, streams>>
          ELSE LET v == Str(r.data.items[1].id.videoId)
               IN /\ videoId' = [videoId EXCEPT ![h] = v]
                  /\ IF ~Truthy(v)
                     THEN /\ Respond(h, 200, emptyStreams)
                          /\ UNCHANGED streams
                     ELSE /\ streams' =
                               [streams EXCEPT
                                  ![h] = <<[title |-> "Trailer", ytId |-> v]>>]
                          /\ Respond(h, 200,
                               [streams |-> <<[title |-> "Trailer",
                                               ytId |-> v]>>])
  /\ UNCHANGED <<variant, YOUTUBE_API_KEY, TMDB_API_KEY, served, req, tmdbId,
                 imdbId, searchQuery, microtasks, draining>>

Next ==
  \/ StreamSearch_Receive
  \/ StreamInvidious_Receive
  \/ StreamPiped_Receive
  \/ \E h \in Handlers :
       \/ StreamSearch_ImdbSettles(h)
       \/ StreamSearch_TitleSettles(h)
       \/ StreamSearch_SearchSettles(h)
       \/ StreamSearch_ImdbReturnedNull(h)
       \/ StreamSearch_TitleReturnedNull(h)
       \/ Stream_FindSettles(h)
       \/ Stream_FindReturnedNull(h)
       \/ Stream_TrailerReturnedNull(h)
       \/ StreamInvidious_VideosSettles(h)
       \/ StreamInvidious_InstanceSettles(h)
       \/ StreamPiped_VideosSettles(h)
       \/ StreamPiped_BackendSettles(h)
       \/ StreamPiped_AllSettled(h)

Spec == Init /\ [][Next]_vars

(***************************************************************************)
(* The trailer locator on its own: getTrailerFromTmdb(tmdbId) called once, *)
(* by the first handler, with a native id, against every videos response   *)
(* of at most MaxVideos entries                                            *)
(***************************************************************************)
InitLocator ==
  /\ variant \in {"invidious", "piped"}
  /\ TMDB_API_KEY \in BOOLEAN
  /\ YOUTUBE_API_KEY = FALSE
  /\ served = 0
  /\ pc = [h \in Handlers |-> IF h = 1 THEN "locate" ELSE "idle"]
  /\ req = [h \in Handlers |-> NoRequest]
  /\ tmdbId \in {[h \in Handlers |-> IF h = 1 THEN t ELSE Null] :
                   t \in {Num(42), Str(<<"4", "2">>)}}
  /\ imdbId = [h \in Handlers |-> Null]
  /\ searchQuery = [h \in Handlers |-> Null]
  /\ videoId = [h \in Handlers |-> Null]
  /\ calls = [h \in Handlers |-> << >>]
  /\ streams = [h \in Handlers |-> << >>]
  /\ res = [h \in Handlers |-> NoResponse]
  /\ microtasks = << >>
  /\ draining = FALSE

\* the function up to its await: without a key it returns null at once
Locator_Call(h) ==
  /\ pc[h] = "locate"
  /\ IF TMDB_API_KEY
     THEN /\ calls' = [calls EXCEPT ![h] = Issue(calls[h], "tmdb.videos", 0)]
          /\ pc' = [pc EXCEPT ![h] = "awaitVideos"]
          /\ UNCHANGED videoId
     ELSE /\ videoId' = [videoId EXCEPT ![h] = Null]
          /\ pc' = [pc EXCEPT ![h] = "located"]
          /\ UNCHANGED calls
  /\ UNCHANGED <<variant, YOUTUBE_API_KEY, TMDB_API_KEY, served, req, tmdbId,
                 imdbId, searchQuery, streams, res, microtasks, draining>>

\* its axios.get settles and the function returns
Locator_VideosSettles(h) ==
  /\ pc[h] = "awaitVideos"
  /\ \E r \in Failures \cup {Ok(p) : p \in VideosPayloads(MaxVideos)} :
       /\ calls' = [calls EXCEPT ![h] = Settle(calls[h], Len(calls[h]), r)]
       /\ videoId' = [videoId EXCEPT ![h] = getTrailerFromTmdb(r)]
  /\ pc' = [pc EXCEPT ![h] = "located"]
  /\ UNCHANGED <<variant, YOUTUBE_API_KEY, TMDB_API_KEY, served, req, tmdbId,
                 imdbId, searchQuery, streams, res, microtasks, draining>>

NextLocator ==
  \E h \in Handlers : Locator_Call(h) \/ Locator_VideosSettles(h)

SpecLocator == InitLocator /\ [][NextLocator]_vars

(***************************************************************************)
(* Properties                                                              *)
(***************************************************************************)
\* the catalog kinds each snapshot declares it supports
DeclaredKinds == IF variant = "invidious" THEN {"movie"} ELSE {"movie", "series"}

Answered(h) == pc[h] = "done"

\* the positions in the log of the calls to stream backends
BackendCalls(h) == {k \in 1..Len(calls[h]) : calls[h][k].api = "backend"}
\* the backends queried so far
Queried(h) == {calls[h][k].n : k \in BackendCalls(h)}
\* the outcome of the call to backend i
ResponseOf(h, i) ==
  calls[h][CHOOSE k \in BackendCalls(h) : calls[h][k].n = i].result
BackendFailed(h, i) == ResponseOf(h, i).kind \in FailKinds
\* the number of stream backends the running snapshot is configured with
NumBackends ==
  IF variant = "invidious" THEN Len(instances)
  ELSE IF variant = "piped" THEN Len(pipedHosts)
  ELSE 0

\* the search call was made and threw: it was rejected, or its body has no
\* items list
SearchThrew(h) ==
  /\ calls[h] # << >>
  /\ calls[h][Len(calls[h])].api = "youtube.search"
  /\ LET r == calls[h][Len(calls[h])].result
     IN r.kind \in FailKinds \/ (r.kind = "ok" /\ "items" \notin DOMAIN r.data)

\* C1 as stated: every answer to a request of a supported type has a streams
\* array in its body.
C1_StreamsAlwaysPresent ==
  \A h \in Handlers :
    (Answered(h) /\ req[h].type \in DeclaredKinds) =>
      /\ "streams" \in DOMAIN res[h].body
      /\ DOMAIN res[h].body.streams = 1..Len(res[h].body.streams)

\* C1 amended: every answer to a request of a supported type has a streams
\* array in its body, whatever the metadata provider and the backends did,
\* except in the search snapshot when the YouTube key is not configured or
\* the search call throws: these two are answered with an error body.
C1_StreamsPresentUnlessSearchFault ==
  \A h \in Handlers :
    (Answered(h) /\ req[h].type \in DeclaredKinds) =>
      /\ ("streams" \in DOMAIN res[h].body) <=>
           ~(variant = "search" /\ (~YOUTUBE_API_KEY \/ SearchThrew(h)))
      /\ "streams" \in DOMAIN res[h].body =>
           DOMAIN res[h].body.streams = 1..Len(res[h].body.streams)

\* every backend was queried and every one of them failed, and the answer
\* still holds a streams array
C1_Witness ==
  \E h \in Handlers :
    /\ Answered(h)
    /\ variant \in {"invidious", "piped"}
    /\ Cardinality(Queried(h)) = NumBackends
    /\ \A i \in Queried(h) : BackendFailed(h, i)
    /\ "streams" \in DOMAIN res[h].body

\* the format list of the response of backend i, empty when it has none
FormatsOf(h, i) ==
  LET r == ResponseOf(h, i)
  IN IF r.kind # "ok" THEN << >>
     ELSE IF "formatStreams" \in DOMAIN r.data THEN r.data.formatStreams
     ELSE IF "videoStreams" \in DOMAIN r.data THEN r.data.videoStreams
     ELSE << >>

\* the first entry of backend i's format list whose quality is in Q, as a
\* set: empty when there is none
FirstOf(h, i, Q) ==
  LET l == FormatsOf(h, i)
  IN {l[j] : j \in {m \in 1..Len(l) :
                      /\ l[m].quality \in Q
                      /\ \A n \in 1..(m - 1) : l[n].quality \notin Q}}

\* the qualities each snapshot looks for
WantedQualities ==
  IF variant = "invidious" THEN {"720p", "480p", "360p"} ELSE {"720p", "1080p"}

\* the urls of the descriptors sent
OutputUrls(h) ==
  {res[h].body.streams[j].url :
     j \in {m \in 1..Len(res[h].body.streams) :
              "url" \in DOMAIN res[h].body.streams[m]}}

\* the urls that came from backend i
MediaUrlsOf(h, i) ==
  {u \in OutputUrls(h) : "backend" \in DOMAIN u /\ u.backend = i}

PendingBackends(h) == {i \in Queried(h) : ResponseOf(h, i) = Pending}

\* backend i gave the invidious loop a 720p stream
Yields720(h, i) ==
  \E f \in FirstOf(h, i, {"720p", "480p", "360p"}) :
    f.quality = "720p" /\ f.url.scheme # ""

\* C2 as stated: the backends are all requested together, none waiting for
\* an earlier one, and the answer is built only once every one has settled.
C2_FanOutSettleAll ==
  \A h \in Handlers :
    /\ BackendCalls(h) # {} => Queried(h) = 1..NumBackends
    /\ (Answered(h) /\ BackendCalls(h) # {}) => PendingBackends(h) = {}

\* C2 amended: in the Piped snapshot the three backends are requested
\* together and the answer is built only once all three have settled, with
\* no short-circuit.  In the Invidious snapshot the backends are requested
\* one at a time in declaration order, each after the previous one settled,
\* and the loop stops at the first backend that yields a 720p stream, which
\* leaves the later backends unqueried.
C2_FanOutPipedSequentialInvidious ==
  \A h \in Handlers :
    /\ variant = "piped" =>
         /\ BackendCalls(h) # {} => Queried(h) = 1..NumBackends
         /\ (Answered(h) /\ BackendCalls(h) # {}) => PendingBackends(h) = {}
    /\ variant = "invidious" =>
         /\ Queried(h) = 1..Cardinality(Queried(h))
         /\ PendingBackends(h) \subseteq {Cardinality(Queried(h))}
         /\ \A i \in Queried(h) :
              i < Cardinality(Queried(h)) => ~Yields720(h, i)
         /\ (Answered(h) /\ BackendCalls(h) # {}) =>
              /\ PendingBackends(h) = {}
              /\ \/ Cardinality(Queried(h)) = NumBackends
                 \/ Yields720(h, Cardinality(Queried(h)))

\* Piped: the first backend returned a 720p stream and the answer was still
\* built after the other two settled
C2_Witness ==
  \E h \in Handlers :
    /\ Answered(h)
    /\ variant = "piped"
    /\ Queried(h) = 1..3
    /\ \E f \in FirstOf(h, 1, {"720p"}) : f.url.scheme = "https"
    /\ ResponseOf(h, 2).kind = "ok"
    /\ ResponseOf(h, 3).kind = "timeout"

\* a candidate the spec's filter accepts: a known quality and a secure url
ValidCandidate(f) ==
  f.quality \in {"1080p", "720p", "480p", "360p"} /\ f.url.scheme = "https"

\* C3 as stated: a failing backend contributes no entry and never makes the
\* request fail, and a backend that returned one valid candidate has that
\* candidate's url in the output.
C3_FailingBackendIgnored ==
  \A h \in Handlers :
    (Answered(h) /\ BackendCalls(h) # {}) =>
      /\ res[h].status = 200
      /\ "streams" \in DOMAIN res[h].body
      /\ \A i \in Queried(h) : BackendFailed(h, i) => MediaUrlsOf(h, i) = {}
      /\ \A i \in Queried(h) :
           (Len(FormatsOf(h, i)) = 1 /\ ValidCandidate(FormatsOf(h, i)[1])) =>
             FormatsOf(h, i)[1].url \in OutputUrls(h)

\* C3 amended: a backend that errors, times out or returns a non-success
\* status never makes the request fail (the answer is HTTP 200 with a
\* streams array) and no url of the output comes from it.  A backend's url
\* is in the output exactly when the first entry of its list with a wanted
\* quality (720p, 480p or 360p for Invidious; 720p or 1080p for Piped, where
\* a 480p candidate is ignored) has a non-empty url; the url is that entry's.
C3_FailingBackendIgnoredFirstWanted ==
  \A h \in Handlers :
    (Answered(h) /\ BackendCalls(h) # {}) =>
      /\ res[h].status = 200
      /\ "streams" \in DOMAIN res[h].body
      /\ \A i \in Queried(h) :
           /\ BackendFailed(h, i) => MediaUrlsOf(h, i) = {}
           /\ MediaUrlsOf(h, i) =
                {f.url : f \in {g \in FirstOf(h, i, WantedQualities) :
                                  g.url.scheme # ""}}

\* Invidious: the first backend timed out, the second returned one 480p
\* candidate, whose url is in the output
C3_Witness ==
  \E h \in Handlers :
    /\ Answered(h)
    /\ variant = "invidious"
    /\ {1, 2} \subseteq Queried(h)
    /\ ResponseOf(h, 1).kind = "timeout"
    /\ FormatsOf(h, 2) = <<Format("480p", "https", 2, 1)>>
    /\ MediaUrl("https", 2, 1) \in OutputUrls(h)
    /\ res[h].status = 200

\* backend i returned nothing usable: it failed, or no entry of its list
\* has a url
NoUsableData(h, i) ==
  \/ BackendFailed(h, i)
  \/ \A j \in 1..Len(FormatsOf(h, i)) : FormatsOf(h, i)[j].url.scheme = ""

\* a descriptor that is not directly playable: a video id to look up, or the
\* address of a Piped API host
IsFallback(d) ==
  \/ "ytId" \in DOMAIN d
  \/ "host" \in DOMAIN d.url

\* a video id was located and every backend of the snapshot was queried and
\* returned nothing usable
NoBackendUsable(h) ==
  /\ Answered(h)
  /\ Truthy(videoId[h])
  /\ "streams" \in DOMAIN res[h].body
  /\ Queried(h) = 1..NumBackends
  /\ \A i \in Queried(h) : NoUsableData(h, i)

\* C4 as stated: with a video id and no usable backend data the list sent is
\* empty or is one fallback descriptor, never more than one.
C4_AtMostOneFallback ==
  \A h \in Handlers :
    NoBackendUsable(h) =>
      /\ Len(res[h].body.streams) <= 1
      /\ \A j \in 1..Len(res[h].body.streams) :
           IsFallback(res[h].body.streams[j])

\* C4 amended: with a video id and no usable backend data the list sent is
\* empty in the Invidious snapshot, is the one {title, ytId} descriptor in
\* the search snapshot (which has no backend), and in the Piped snapshot is
\* three fallback descriptors, the placeholder of each Piped host in order.
C4_FallbacksPerSnapshot ==
  \A h \in Handlers :
    NoBackendUsable(h) =>
      /\ variant = "invidious" => res[h].body.streams = << >>
      /\ variant = "search" =>
           res[h].body.streams = <<[title |-> "Trailer", ytId |-> videoId[h]]>>
      /\ variant = "piped" =>
           /\ Len(res[h].body.streams) = 3
           /\ \A j \in 1..3 :
                res[h].body.streams[j].url = PipedUrl(j, videoId[h])

\* Piped: the three backends failed and three placeholders were sent
C4_Witness ==
  \E h \in Handlers :
    /\ NoBackendUsable(h)
    /\ variant = "piped"
    /\ \A i \in Queried(h) : BackendFailed(h, i)
    /\ Len(res[h].body.streams) = 3

\* the number a quality label parses to, 0 when it does not parse
QualityRank(label) ==
  CASE label = "1080p" -> 1080
    [] label = "720p" -> 720
    [] label = "480p" -> 480
    [] label = "360p" -> 360
    [] label = "144p" -> 144
    [] OTHER -> 0

\* the quality rank of a descriptor, from the label in its name
RankOf(d) ==
  IF "name" \in DOMAIN d /\ Len(d.name) = 3 THEN QualityRank(d.name[2]) ELSE 0

\* the backend a descriptor's url came from, 0 when from none
BackendOf(d) ==
  IF "url" \in DOMAIN d /\ "backend" \in DOMAIN d.url THEN d.url.backend ELSE 0

\* C5 as stated: the descriptors are in descending order of quality, equal
\* qualities in backend declaration order.
C5_SortedByQuality ==
  \A h \in Handlers :
    (Answered(h) /\ "streams" \in DOMAIN res[h].body) =>
      \A j, k \in 1..Len(res[h].body.streams) :
        j < k =>
          /\ RankOf(res[h].body.streams[j]) >= RankOf(res[h].body.streams[k])
          /\ RankOf(res[h].body.streams[j]) = RankOf(res[h].body.streams[k]) =>
               BackendOf(res[h].body.streams[j])
                 <= BackendOf(res[h].body.streams[k])

\* C5 amended: the descriptors are not sorted by quality.  In the Invidious
\* snapshot they are in backend declaration order, so that a lower quality
\* can precede a higher one, and a 720p descriptor is always the last; in
\* the Piped snapshot they are the three descriptors HD, Alternative,
\* Backup in that order whatever the backends returned.
C5_DeclarationOrder ==
  \A h \in Handlers :
    (Answered(h) /\ "streams" \in DOMAIN res[h].body) =>
      /\ variant = "invidious" =>
           \A j, k \in 1..Len(res[h].body.streams) :
             j < k =>
               /\ BackendOf(res[h].body.streams[j])
                    < BackendOf(res[h].body.streams[k])
               /\ RankOf(res[h].body.streams[j]) # 720
      /\ (variant = "piped" /\ res[h].body.streams # << >>) =>
           [j \in 1..Len(res[h].body.streams) |-> res[h].body.streams[j].name]
             = <<<<"Trailer (HD)">>, <<"Trailer (Alternative)">>,
                 <<"Trailer (Backup)">>>>

\* Invidious: 360p from the first backend precedes 720p from the second
C5_Witness ==
  \E h \in Handlers :
    /\ Answered(h)
    /\ variant = "invidious"
    /\ "streams" \in DOMAIN res[h].body
    /\ Len(res[h].body.streams) = 2
    /\ RankOf(res[h].body.streams[1]) = 360
    /\ RankOf(res[h].body.streams[2]) = 720
    /\ BackendOf(res[h].body.streams[1]) = 1
    /\ BackendOf(res[h].body.streams[2]) = 2

\* C6 as stated: a type that is not a declared catalog kind is answered 400
\* with an error body and no outbound call is made, whatever the keys.
C6_UnsupportedTypeIs400 ==
  \A h \in Handlers :
    (Answered(h) /\ req[h].type \notin DeclaredKinds) =>
      /\ res[h].status = 400
      /\ DOMAIN res[h].body = {"error"}
      /\ calls[h] = << >>

\* C6 amended: a type that is not a declared catalog kind is answered with
\* an error body and no outbound call is made; the status is 400, except in
\* the search snapshot without a YouTube key, where the key check comes
\* first and the status is 500.
C6_UnsupportedTypeIsError ==
  \A h \in Handlers :
    (Answered(h) /\ req[h].type \notin DeclaredKinds) =>
      /\ res[h].status =
           IF variant = "search" /\ ~YOUTUBE_API_KEY THEN 500 ELSE 400
      /\ DOMAIN res[h].body = {"error"}
      /\ calls[h] = << >>

\* an unsupported type answered 400 by a server whose TMDB key is set
C6_Witness ==
  \E h \in Handlers :
    /\ Answered(h)
    /\ req[h].type = "tv"
    /\ TMDB_API_KEY
    /\ res[h].status = 400
    /\ calls[h] = << >>

\* name contains word whatever the case of its letters
SameLetter(a, b) ==
  \/ a = b
  \/ \E i \in 1..Len(UpperCase) :
       {a, b} = {UpperCase[i], LowerCase[i]}

ContainsIgnoringCase(name, word) ==
  \E i \in 1..(Len(name) - Len(word) + 1) :
    \A j \in 1..Len(word) : SameLetter(name[i + j - 1], word[j])

\* C7: the locator returns the key of the first YouTube trailer that is
\* official or whose name contains "official" in any case; failing that, the
\* key of the first YouTube trailer; and null exactly when the list has no
\* YouTube trailer, the call fails, or no key is configured.
C7_OfficialTrailerFirst ==
  \A h \in Handlers :
    pc[h] = "located" =>
      IF calls[h] = << >> THEN ~TMDB_API_KEY /\ videoId[h] = Null
      ELSE LET r == calls[h][1].result
           IN IF r.kind # "ok" \/ "results" \notin DOMAIN r.data
              THEN videoId[h] = Null
              ELSE LET vs == r.data.results
                       Trailers == {i \in 1..Len(vs) :
                                      vs[i].type = "Trailer"
                                      /\ vs[i].site = "YouTube"}
                       Officials == {i \in Trailers :
                                       \/ vs[i].official
                                       \/ ContainsIgnoringCase(vs[i].name,
                                                               officialWord)}
                       First(S) == CHOOSE i \in S : \A j \in S : i <= j
                   IN /\ Officials # {} =>
                           videoId[h] = Str(vs[First(Officials)].key)
                      /\ (Officials = {} /\ Trailers # {}) =>
                           videoId[h] = Str(vs[First(Trailers)].key)
                      /\ videoId[h] = Null <=> Trailers = {}

\* a trailer that is official only by its upper-case name wins over an
\* earlier trailer that is not official
C7_Witness ==
  \E h \in Handlers :
    /\ pc[h] = "located"
    /\ calls[h] # << >>
    /\ calls[h][1].result.kind = "ok"
    /\ "results" \in DOMAIN calls[h][1].result.data
    /\ LET vs == calls[h][1].result.data.results
       IN /\ Len(vs) = 2
          /\ vs[1].type = "Trailer" /\ vs[1].site = "YouTube"
          /\ ~vs[1].official
          /\ vs[1].name = <<"T", "e", "a", "s", "e", "r">>
          /\ vs[2].type = "Trailer" /\ vs[2].site = "YouTube"
          /\ ~vs[2].official
          /\ vs[2].name = <<"A", " ", "O", "F", "F", "i", "c", "i", "A", "L">>
          /\ videoId[h] = Str(vs[2].key)

\* the outcome of the first call to api in the log; Pending when none was made
ResultOf(h, api) ==
  LET ks == {k \in 1..Len(calls[h]) : calls[h][k].api = api}
  IN IF ks = {} THEN Pending
     ELSE calls[h][CHOOSE k \in ks : \A m \in ks : k <= m].result

Made(h, api) == \E k \in 1..Len(calls[h]) : calls[h][k].api = api

HasPrefix(id, p) == Len(id) >= Len(p) /\ \A j \in 1..Len(p) : id[j] = p[j]

UnknownIdFormat(h) ==
  ~HasPrefix(req[h].id, tt) /\ ~HasPrefix(req[h].id, tmdbPrefix)

\* the find call gave a native id
FindMapped(h) ==
  LET r == ResultOf(h, "tmdb.find")
  IN /\ r.kind = "ok"
     /\ "movie_results" \in DOMAIN r.data
     /\ r.data.movie_results # << >>
     /\ r.data.movie_results[1].id # 0

\* Invidious and Piped: the identifier could not be mapped to a native id
NativeIdAbsent(h) ==
  \/ UnknownIdFormat(h)
  \/ HasPrefix(req[h].id, tt) /\ (~TMDB_API_KEY \/ ~FindMapped(h))
  \/ req[h].id = tmdbPrefix

\* the videos call gave a list with a trailer on YouTube in it
TrailerListed(h) ==
  LET r == ResultOf(h, "tmdb.videos")
  IN /\ r.kind = "ok"
     /\ "results" \in DOMAIN r.data
     /\ \E j \in 1..Len(r.data.results) :
          /\ r.data.results[j].type = "Trailer"
          /\ r.data.results[j].site = "YouTube"

\* Invidious and Piped: no trailer candidate was found for the native id
NoTrailerFound(h) == ~NativeIdAbsent(h) /\ (~TMDB_API_KEY \/ ~TrailerListed(h))

\* the search was made and returned no item
SearchFoundNothing(h) ==
  /\ Made(h, "youtube.search")
  /\ ResultOf(h, "youtube.search").kind = "ok"
  /\ "items" \in DOMAIN ResultOf(h, "youtube.search").data
  /\ ResultOf(h, "youtube.search").data.items = << >>

EmptyAnswer(h) == res[h] = [status |-> 200, body |-> [streams |-> << >>]]

\* C8 as stated: when the identifier cannot be mapped to a native id (unknown
\* format, lookup failed or empty, no key) or no trailer is found, the answer
\* is 200 with an empty streams list and no backend is queried.
C8_NotResolvableIsEmpty ==
  \A h \in Handlers :
    (/\ Answered(h)
     /\ req[h].type \in DeclaredKinds
     /\ \/ UnknownIdFormat(h)
        \/ variant # "search" /\ (NativeIdAbsent(h) \/ NoTrailerFound(h))
        \/ variant = "search" /\ SearchFoundNothing(h)) =>
      /\ EmptyAnswer(h)
      /\ BackendCalls(h) = {}

\* C8 amended: in the Invidious and Piped snapshots, when the identifier
\* cannot be mapped to a native id (unknown format, lookup failed or empty,
\* no key) or no trailer is found, the answer is 200 with an empty streams
\* list and no backend is queried.  The search snapshot maps nothing to a
\* native id: given its YouTube key, an identifier of unknown format is
\* searched for as text, and the answer is 200 with an empty list when no
\* search was made or the search returned no item.
C8_NotResolvableIsEmptyTmdb ==
  \A h \in Handlers :
    (Answered(h) /\ req[h].type \in DeclaredKinds) =>
      /\ (variant # "search" /\ (NativeIdAbsent(h) \/ NoTrailerFound(h))) =>
           EmptyAnswer(h) /\ BackendCalls(h) = {}
      /\ (variant = "search" /\ YOUTUBE_API_KEY) =>
           /\ UnknownIdFormat(h) => Made(h, "youtube.search")
           /\ (~Made(h, "youtube.search") \/ SearchFoundNothing(h)) =>
                EmptyAnswer(h)
           /\ BackendCalls(h) = {}

\* Invidious: the find call for an IMDb id timed out and the answer is empty
C8_Witness ==
  \E h \in Handlers :
    /\ Answered(h)
    /\ variant = "invidious"
    /\ req[h] = [type |-> "movie", id |-> <<"t", "t", "1">>]
    /\ ResultOf(h, "tmdb.find").kind = "timeout"
    /\ EmptyAnswer(h)
    /\ BackendCalls(h) = {}

\* the scenario of C9: an IMDb id mapped to a native id, one official
\* YouTube trailer, every backend queried, two of them returning one 480p
\* candidate each and the others failing
TwoBackends480p(h) ==
  /\ Answered(h)
  /\ req[h] = [type |-> "movie", id |-> <<"t", "t", "1">>]
  /\ FindMapped(h)
  /\ ResultOf(h, "tmdb.videos").kind = "ok"
  /\ "results" \in DOMAIN ResultOf(h, "tmdb.videos").data
  /\ LET vs == ResultOf(h, "tmdb.videos").data.results
     IN /\ Len(vs) = 1
        /\ vs[1].type = "Trailer" /\ vs[1].site = "YouTube" /\ vs[1].official
  /\ Queried(h) = 1..NumBackends
  /\ Cardinality({i \in Queried(h) :
                    FormatsOf(h, i) = <<Format("480p", "https", i, 1)>>}) = 2
  /\ \A i \in Queried(h) :
       FormatsOf(h, i) # <<Format("480p", "https", i, 1)>> =>
         BackendFailed(h, i)

\* C9 as stated: in the scenario the answer is one descriptor, named
\* "Trailer (480p)", with a backend's url and source "youtube".
C9_OneDescriptor480p ==
  \A h \in Handlers :
    TwoBackends480p(h) =>
      /\ Len(res[h].body.streams) = 1
      /\ res[h].body.streams[1].name = <<"Trailer (", "480p", ")">>
      /\ BackendOf(res[h].body.streams[1]) \in Queried(h)
      /\ res[h].body.streams[1].source = "youtube"

\* C9 amended: in the scenario the Invidious snapshot answers with two
\* descriptors, one for each of the two backends in declaration order, each
\* named "Trailer (480p)", with its own backend's url and source "youtube"
\* (equal qualities are not merged); the Piped snapshot ignores the 480p
\* candidates and answers with its three placeholder descriptors.
C9_OneDescriptorPerBackend ==
  \A h \in Handlers :
    TwoBackends480p(h) =>
      /\ variant = "invidious" =>
           /\ Len(res[h].body.streams) = 2
           /\ \A j \in 1..2 :
                /\ res[h].body.streams[j].name = <<"Trailer (", "480p", ")">>
                /\ res[h].body.streams[j].source = "youtube"
                /\ res[h].body.streams[j].url =
                     MediaUrl("https", BackendOf(res[h].body.streams[j]), 1)
           /\ {BackendOf(res[h].body.streams[j]) : j \in 1..2} =
                {i \in Queried(h) : ~BackendFailed(h, i)}
           /\ BackendOf(res[h].body.streams[1])
                < BackendOf(res[h].body.streams[2])
      /\ variant = "piped" =>
           /\ Len(res[h].body.streams) = 3
           /\ \A j \in 1..3 :
                /\ res[h].body.streams[j].url = PipedUrl(j, videoId[h])
                /\ res[h].body.streams[j].source = "youtube"

\* Invidious: the scenario, with the first and third backends failing
C9_Witness ==
  \E h \in Handlers :
    /\ TwoBackends480p(h)
    /\ variant = "invidious"
    /\ BackendFailed(h, 1)
    /\ BackendFailed(h, 3)
    /\ Len(res[h].body.streams) = 2

\* C10 as stated: no descriptor carries a backend-provided url whose scheme
\* is not https.
C10_OnlyHttps ==
  \A h \in Handlers :
    (Answered(h) /\ "streams" \in DOMAIN res[h].body) =>
      \A u \in OutputUrls(h) : "backend" \in DOMAIN u => u.scheme = "https"

\* C10 amended: the scheme of a candidate's url is not looked at.  Every
\* descriptor carries a non-empty url, and a backend-provided one is, as the
\* backend gave it and whatever its scheme, the url of the first entry of
\* that backend's list with a wanted quality; a candidate is rejected for its
\* url only when the url is missing or empty.
C10_UrlPassedThrough ==
  \A h \in Handlers :
    (Answered(h) /\ "streams" \in DOMAIN res[h].body) =>
      /\ \A u \in OutputUrls(h) : u.scheme # ""
      /\ \A u \in OutputUrls(h) :
           "backend" \in DOMAIN u =>
             /\ u.backend \in Queried(h)
             /\ \E f \in FirstOf(h, u.backend, WantedQualities) : f.url = u
      /\ \A i \in Queried(h) :
           \A f \in FirstOf(h, i, WantedQualities) :
             f.url.scheme = "http" => f.url \in OutputUrls(h)

\* a descriptor whose url is an http url that a backend returned
C10_Witness ==
  \E h \in Handlers :
    /\ Answered(h)
    /\ "streams" \in DOMAIN res[h].body
    /\ \E u \in OutputUrls(h) : "backend" \in DOMAIN u /\ u.scheme = "http"

\* C11: in the Piped snapshot the url of the i-th descriptor sent is either
\* the placeholder of the i-th host or the url of the first 720p or 1080p
\* stream of the i-th host's own response; a descriptor whose host failed or
\* offered no such stream with a url keeps its placeholder.
C11_DescriptorUrlFromOwnBackend ==
  \A h \in Handlers :
    (Answered(h) /\ variant = "piped" /\ BackendCalls(h) # {}) =>
      /\ Len(res[h].body.streams) = Len(pipedHosts)
      /\ \A i \in 1..Len(pipedHosts) :
           LET own == {f.url : f \in {g \in FirstOf(h, i, {"720p", "1080p"}) :
                                        g.url.scheme # ""}}
           IN /\ res[h].body.streams[i].url
                   \in {PipedUrl(i, videoId[h])} \cup own
              /\ own = {} =>
                   res[h].body.streams[i].url = PipedUrl(i, videoId[h])

\* the first entry of backend i's formatStreams whose quality is 720p, 480p
\* or 360p and whose url is non-empty, as a set: empty when there is none
FirstUsable(h, i) ==
  LET l == FormatsOf(h, i)
      usable == {m \in 1..Len(l) : /\ l[m].quality \in {"720p", "480p", "360p"}
                                   /\ l[m].url.scheme # ""}
  IN {l[m] : m \in {n \in usable : \A o \in usable : n <= o}}

\* descriptor d reports the quality 720p
Is720(d) == d.name = <<"Trailer (", "720p", ")">>

\* the list of descriptors holds at most one per queried backend, in
\* declaration order, each built from the first usable entry of its backend,
\* and a 720p descriptor only in the last place
FromFirstUsable(h, list) ==
  /\ \A j, k \in 1..Len(list) :
       j < k => BackendOf(list[j]) < BackendOf(list[k])
  /\ \A j \in 1..Len(list) :
       LET d == list[j]
           i == BackendOf(d)
       IN /\ i \in Queried(h)
          /\ FirstUsable(h, i) # {}
          /\ \A f \in FirstUsable(h, i) :
               /\ d.url = f.url
               /\ d.name = <<"Trailer (", f.quality, ")">>
          /\ Is720(d) => /\ j = Len(list)
                         /\ \A n \in Queried(h) : n <= i

\* C12: in the Invidious snapshot the backends are requested one at a time
\* in declaration order, each only after the one before has settled; no
\* backend after the one that gave a 720p descriptor is requested; the
\* descriptors collected and sent are at most one per backend, in
\* declaration order, each with the url and quality of the first entry of
\* its backend's formatStreams that has a wanted quality and a non-empty
\* url; a 720p descriptor is the last one.
C12_SequentialFirstMatch ==
  \A h \in Handlers :
    (variant = "invidious" /\ BackendCalls(h) # {}) =>
      /\ Queried(h) = 1..Cardinality(Queried(h))
      /\ Cardinality(BackendCalls(h)) = Cardinality(Queried(h))
      /\ \A k, m \in BackendCalls(h) :
           k < m => /\ calls[h][k].n < calls[h][m].n
                    /\ calls[h][k].result # Pending
      /\ pc[h] = "awaitInstance" => FromFirstUsable(h, streams[h])
      /\ Answered(h) =>
           /\ PendingBackends(h) = {}
           /\ "streams" \in DOMAIN res[h].body
           /\ res[h].body.streams = streams[h]
           /\ FromFirstUsable(h, res[h].body.streams)

\* the first backend answers with a 360p entry ahead of a 720p one and the
\* second with a 720p entry: two backends are queried and the 360p
\* descriptor of the first is followed by the 720p descriptor of the second
C12_Witness ==
  \E h \in Handlers :
    /\ Answered(h)
    /\ variant = "invidious"
    /\ Queried(h) = {1, 2}
    /\ FormatsOf(h, 1) = <<Format("360p", "https", 1, 1),
                        Format("720p", "https", 1, 2)>>
    /\ Len(res[h].body.streams) = 2
    /\ res[h].body.streams[1].name = <<"Trailer (", "360p", ")">>
    /\ Is720(res[h].body.streams[2])
====
